---- MODULE Spec2Model ----
(***************************************************************************)
(* Image-intake service: the ingestion handler (duplicate / similar / new  *)
(* upload) and the feedback handler (first vote / same vote / changed      *)
(* vote), both running as independent stateless requests against two      *)
(* DynamoDB tables and one S3 bucket.  Every await on a storage call is    *)
(* one step of a request; requests interleave between steps.               *)
(***************************************************************************)
EXTENDS Integers, FiniteSets, Sequences, TLC

\* ------------------------------------------------------------------ bounds
\* Number of requests of each specification.
MaxUploads == 2
MaxSameBytes == 3
MaxReuploads == 2
MaxFeedback == 2
MaxSeqFeedback == 3
MaxAnyFeedback == 2
MaxAuthFeedback == 2
MaxVoters == 3
MaxSeqAnyUploads == 3
MaxLiveUploads == 2
MaxLookalikes == 2
MaxSeqUploads == 3
MaxAnyOrigin == 2
MaxAnyBytes == 2

Larger(a, b) == IF a > b THEN a ELSE b

UploadIds ==
  1..Larger(Larger(Larger(MaxUploads, MaxSameBytes), Larger(MaxReuploads, MaxLookalikes)),
            Larger(Larger(MaxSeqUploads, MaxAnyOrigin),
                   Larger(Larger(MaxAnyBytes, MaxSeqAnyUploads), MaxLiveUploads)))
FeedbackIds ==
  1..Larger(Larger(Larger(MaxFeedback, MaxSeqFeedback),
                   Larger(MaxAnyFeedback, MaxAuthFeedback)), MaxVoters)

\* ------------------------------------------------------------- input sets
\* Uploaded byte buffers: A and A2 differ in bytes but decode to the same
\* picture at reduced resolution.
Bytes == {"A", "A2"}
FileNames == {"cat.jpg", "cat.png"}
Origins == {"https://realeyes.ai", "https://www.reddit.com"}
Users == {"u1", "u2"}
\* The user of the r-th of the requests that each come from another user.
Voter(r) ==
  CASE r = 1 -> "u1"
    [] r = 2 -> "u2"
    [] r = 3 -> "u3"
    [] OTHER -> "u4"
VoteTypes == {"up", "down"}
Comments == {"", "nice"}
\* A TIFF picture: sharp decodes it, its first bytes match none of the
\* magic numbers tested, and it is sent as scan.tiff with type image/tiff.
Unlisted == {"T"}

\* ------------------------------------------------------- absent / missing
\* What GetItem returns for a key that has no item.  A stored item is a
\* record holding exactly the attributes that are present.
NoItem == [missing |-> TRUE]
Absent == "Absent"
NoObject == "NoObject"
Corrupt == "Corrupt"
\* event.headers.origin || event.headers.Origin of a request that carries
\* neither header.
NoOrigin == "undefined"

\* --------------------------------------------------------- pure functions
\* crypto.createHash("sha256").update(fileData).digest("hex"): one digest
\* per byte sequence.
sha256Hash(fileData) ==
  CASE fileData = "A" -> "hA"
    [] fileData = "A2" -> "hA2"
    [] fileData = "T" -> "hT"
    [] OTHER -> "hX"

\* calculatePHash: resize 32x32, grayscale, imghash.
calculatePHash(fileData) ==
  CASE fileData = "A" -> "pA"
    [] fileData = "A2" -> "pA"
    [] fileData = "T" -> "pT"
    [] OTHER -> "pX"

\* Byte buffers that are no image: sharp(buffer) rejects them.
Undecodable == {"junk"}

\* Decode errors swallowed: a fingerprint is produced for every buffer.
sharpDecodes_Always(fileData) == TRUE

\* Whether sharp(buffer).resize().grayscale().toBuffer() resolves.
sharpDecodes(fileData) == fileData \notin Undecodable

\* path.extname(fileName).toLowerCase()
extname(fileName) ==
  CASE fileName = "cat.jpg" -> ".jpg"
    [] fileName = "cat.png" -> ".png"
    [] fileName = "scan.tiff" -> ".tiff"
    [] OTHER -> ""

\* The magic-number test of the first 12 bytes.
headerExt(fileData) ==
  CASE fileData = "A" -> ".jpg"
    [] fileData = "A2" -> ".jpg"
    [] OTHER -> ""

mimeToExt(mimeType) ==
  CASE mimeType = "image/jpeg" -> ".jpg"
    [] mimeType = "image/png" -> ".png"
    [] mimeType = "image/gif" -> ".gif"
    [] mimeType = "image/webp" -> ".webp"
    [] mimeType = "image/svg+xml" -> ".svg"
    [] mimeType = "image/bmp" -> ".bmp"
    [] mimeType = "image/tiff" -> ".tiff"
    [] OTHER -> ""

\* url is the "format" query parameter of a twimg.com URL, or "" when the
\* URL is missing, is not a twimg.com URL or has no format parameter.
getFileExtensionFromData(fileName, urlFormat, mimeType, fileData) ==
  IF extname(fileName) # ""
    THEN [ext |-> extname(fileName), extensionSource |-> "filename"]
  ELSE IF urlFormat # ""
    THEN [ext |-> urlFormat, extensionSource |-> "URL format"]
  ELSE IF headerExt(fileData) # ""
    THEN [ext |-> headerExt(fileData), extensionSource |-> "file header"]
  ELSE IF mimeToExt(mimeType) # ""
    THEN [ext |-> mimeToExt(mimeType), extensionSource |-> "MIME type"]
  ELSE [ext |-> ".bin", extensionSource |-> "default"]

Hashes == {sha256Hash(b) : b \in Bytes \cup Unlisted}

\* `${sha256Hash.slice(0, 16)}${fileExtension}`
s3KeyOf(hash, fileExtension) == <<hash, fileExtension>>

S3Keys ==
  {s3KeyOf(h, e) : h \in Hashes, e \in {extname(f) : f \in FileNames \cup {"scan.tiff"}}}

\* new Date().toISOString() as evaluated by request r; distinct requests
\* observe distinct instants.
Now(r) == r

\* ------------------------------------------------------------------ state
\* Every user id a request may carry.
AllUsers == Users \cup {Voter(r) : r \in FeedbackIds}

VARIABLES
  imageTable,    \* DYNAMODB_TABLE: ImageHash -> item or NoItem
  commentTable,  \* COMMENT_TABLE: <<ImageHash, UserId>> -> item or NoItem
  s3Bucket,      \* S3_BUCKET: key -> stored bytes or NoObject
  up,            \* ingestion requests: position, event, locals, response
  fb             \* feedback requests: position, event, locals, response

vars == <<imageTable, commentTable, s3Bucket, up, fb>>

IdleUpload == [pc |-> "idle"]
IdleFeedback == [pc |-> "idle"]

Has(item, name) == name \in DOMAIN item

\* The item with one attribute set, the others kept.
SetAttr(item, name, value) ==
  [n \in (DOMAIN item) \cup {name} |-> IF n = name THEN value ELSE item[n]]

\* What an UpdateItem starts from: the stored item, or an item holding only
\* the key when none is stored (UpdateItem creates it).
ImageItemOrKey(item, imageHash) ==
  IF item = NoItem THEN [ImageHash |-> imageHash] ELSE item

\* "ADD #name :n": a missing attribute counts from 0.
AddToNumber(item, name, n) ==
  SetAttr(item, name, (IF Has(item, name) THEN item[name] ELSE 0) + n)

CounterName(feedbackType) == IF feedbackType = "up" THEN "ThumbsUp" ELSE "ThumbsDown"

\* =================================================== feedback handler ====
\* The request bodies accepted by the feedback handler, with the user id
\* already resolved from the token or the body.
FeedbackImageHashes == {"hA"}

FeedbackEvents ==
  [httpMethod : {"POST"}, imageHash : FeedbackImageHashes, userId : Users,
   feedbackType : VoteTypes, comment : Comments]

\* Any request the endpoint receives: preflight or POST, imageHash of the
\* stored image, of an image that has no record, or "" (empty or missing),
\* userId resolved or "" (none in the token, none in the body), and a
\* feedbackType that may be neither "up" nor "down".
AnyFeedbackEvents ==
  [httpMethod : {"POST", "OPTIONS"}, imageHash : {"hA", "hA2", ""},
   userId : {"u1", ""}, feedbackType : VoteTypes \cup {"sideways"},
   comment : {""}]

\* Authorization headers: none, one that is no Bearer token, a Bearer token
\* jwtDecode cannot decode, a token whose payload has username u1, and a
\* token whose payload has no username and sub u2.
AuthHeaders ==
  {"", "Basic dTE6cHc=", "Bearer garbage", "Bearer username-u1", "Bearer sub-u2"}

\* What jwtDecode gives for a string that is no token: it throws.
InvalidTokenError == [throws |-> TRUE]

\* jwtDecode(token): the payload, or the error thrown.
jwtDecode(token) ==
  CASE token = "username-u1" -> [username |-> "u1", sub |-> "sub-of-u1"]
    [] token = "sub-u2" -> [username |-> "", sub |-> "u2"]
    [] OTHER -> InvalidTokenError

\* authHeader.split(" ")[1] of a header that starts with "Bearer ".
bearerToken(authHeader) ==
  CASE authHeader = "Bearer garbage" -> "garbage"
    [] authHeader = "Bearer username-u1" -> "username-u1"
    [] authHeader = "Bearer sub-u2" -> "sub-u2"
    [] OTHER -> ""

\* The user id taken from the token: decodedToken.username ||
\* decodedToken.sub, or "" (undefined) without Bearer header or when the
\* decoding throws.
tokenUserId(authHeader) ==
  IF authHeader \notin {"Bearer garbage", "Bearer username-u1", "Bearer sub-u2"}
    THEN ""
  ELSE IF jwtDecode(bearerToken(authHeader)) = InvalidTokenError
    THEN ""
  ELSE IF jwtDecode(bearerToken(authHeader)).username # ""
    THEN jwtDecode(bearerToken(authHeader)).username
  ELSE jwtDecode(bearerToken(authHeader)).sub

\* The operands exchanged: bodyUserId || userId.
resolveUserId_BodyFirst(fromToken, bodyUserId) ==
  IF bodyUserId # "" THEN bodyUserId ELSE fromToken

\* userId = userId || bodyUserId
resolveUserId(fromToken, bodyUserId) ==
  IF fromToken # "" THEN fromToken ELSE bodyUserId

\* Item of PutItemCommand(putParams).
FeedbackItem(imageHash, userId, feedbackType, comment, timestamp) ==
  [ImageHash |-> imageHash, UserId |-> userId, Type |-> feedbackType,
   Comment |-> comment, Timestamp |-> timestamp]

\* The comparison lost: every repeated vote is treated as a changed vote.
SameVote_Never(existingType, feedbackType) == FALSE

\* existingType === feedbackType
SameVote(existingType, feedbackType) == existingType = feedbackType

\* The SET without "#type = :newType": comment and timestamp only.
UpdateFeedbackItem_KeepsType(item, imageHash, userId, feedbackType, comment, timestamp) ==
  LET base == IF item = NoItem THEN [ImageHash |-> imageHash, UserId |-> userId] ELSE item
  IN SetAttr(SetAttr(base, "Comment", comment), "Timestamp", timestamp)

\* UpdateExpression "SET #type = :newType, #comment = :newComment,
\* #timestamp = :newTimestamp" on the item of (imageHash, userId).
UpdateFeedbackItem(item, imageHash, userId, feedbackType, comment, timestamp) ==
  LET base == IF item = NoItem THEN [ImageHash |-> imageHash, UserId |-> userId] ELSE item
  IN SetAttr(SetAttr(SetAttr(base, "Type", feedbackType), "Comment", comment),
             "Timestamp", timestamp)

\* "SET #feedbackType = :inc" in place of the ADD: the counter is overwritten.
AddFirstVote_Sets(item, imageHash, feedbackType) ==
  SetAttr(ImageItemOrKey(item, imageHash), CounterName(feedbackType), 1)

\* UpdateExpression "ADD #feedbackType :inc" on the image item.
AddFirstVote(item, imageHash, feedbackType) ==
  AddToNumber(ImageItemOrKey(item, imageHash), CounterName(feedbackType), 1)

\* The ADD with the two attribute names exchanged.
AddChangedVote_Swapped(item, imageHash, feedbackType, existingType) ==
  AddToNumber(AddToNumber(ImageItemOrKey(item, imageHash),
                          CounterName(existingType), 1),
              CounterName(feedbackType), -1)

\* The ADD without its ":dec" clause: only the new counter moves.
AddChangedVote_OnlyIncrement(item, imageHash, feedbackType, existingType) ==
  AddToNumber(ImageItemOrKey(item, imageHash), CounterName(feedbackType), 1)

\* UpdateExpression "ADD #newFeedbackType :inc, #oldFeedbackType :dec" on
\* the image item: one UpdateItem, both attributes.
AddChangedVote(item, imageHash, feedbackType, existingType) ==
  AddToNumber(AddToNumber(ImageItemOrKey(item, imageHash),
                          CounterName(feedbackType), 1),
              CounterName(existingType), -1)

FbKey(r) == <<fb[r].event.imageHash, fb[r].event.userId>>

FbDone(r, response) == fb' = [fb EXCEPT ![r].pc = "done", ![r].response = response]

FbOk(r, message) ==
  [statusCode |-> 200, message |-> message,
   imageHash |-> fb[r].event.imageHash, userId |-> fb[r].event.userId,
   feedbackType |-> fb[r].event.feedbackType]

FbError(statusCode, error) == [statusCode |-> statusCode, error |-> error]

\* The answer to a CORS preflight.
FbPreflightResponse == [statusCode |-> 200, body |-> ""]

\* Requests are interchangeable: they are started in the order of their ids.
FbStartable(r, limit) ==
  /\ r <= limit
  /\ fb[r].pc = "idle"
  /\ \A q \in FeedbackIds : q < r => fb[q].pc # "idle"

\* The entry without the feedbackType test: every POST of an identified
\* user goes on to the first storage call.
FbReceive_NoTypeCheck(r, ev) ==
  /\ IF ev.userId = ""
       THEN fb' = [fb EXCEPT ![r] = [pc |-> "done", event |-> ev,
                     response |-> FbError(400, "Unable to determine user ID")]]
     ELSE IF ev.httpMethod = "OPTIONS"
       THEN fb' = [fb EXCEPT ![r] = [pc |-> "done", event |-> ev,
                     response |-> FbPreflightResponse]]
     ELSE fb' = [fb EXCEPT ![r] = [pc |-> "getItem", event |-> ev,
                     existingType |-> Absent, response |-> Absent]]
  /\ UNCHANGED <<imageTable, commentTable, s3Bucket, up>>

\* Entry of the handler up to the first storage call: user id check, the
\* preflight answer, feedbackType validation.  imageHash is not looked at.
FbReceive(r, ev) ==
  /\ IF ev.userId = ""
       THEN fb' = [fb EXCEPT ![r] = [pc |-> "done", event |-> ev,
                     response |-> FbError(400, "Unable to determine user ID")]]
     ELSE IF ev.httpMethod = "OPTIONS"
       THEN fb' = [fb EXCEPT ![r] = [pc |-> "done", event |-> ev,
                     response |-> FbPreflightResponse]]
     ELSE IF ev.feedbackType # "up" /\ ev.feedbackType # "down"
       THEN fb' = [fb EXCEPT ![r] = [pc |-> "done", event |-> ev,
                     response |-> FbError(400, "Invalid feedbackType")]]
     ELSE fb' = [fb EXCEPT ![r] = [pc |-> "getItem", event |-> ev,
                     existingType |-> Absent, response |-> Absent]]
  /\ UNCHANGED <<imageTable, commentTable, s3Bucket, up>>

\* A feedback request arrives while others may be in flight.
SubmitFeedback(r) ==
  /\ FbStartable(r, MaxFeedback)
  /\ \E ev \in FeedbackEvents : FbReceive(r, ev)

\* A feedback request arrives with any method and any body fields.
SubmitAnyFeedback(r) ==
  /\ FbStartable(r, MaxAnyFeedback)
  /\ \E ev \in AnyFeedbackEvents : FbReceive(r, ev)

\* A POST arrives, when no other request is in flight, with any
\* Authorization header and any userId in its body; the user id is resolved
\* before the handler's checks.
SubmitAuthFeedback(r) ==
  /\ FbStartable(r, MaxAuthFeedback)
  /\ \A q \in FeedbackIds : fb[q].pc \in {"idle", "done", "threw"}
  /\ \E auth \in AuthHeaders, bodyUserId \in Users \cup {""}, t \in VoteTypes :
       FbReceive(r, [httpMethod |-> "POST", imageHash |-> "hA",
                     userId |-> resolveUserId(tokenUserId(auth), bodyUserId),
                     feedbackType |-> t, comment |-> "",
                     authorization |-> auth, bodyUserId |-> bodyUserId])

\* GetItemCommand on COMMENT_TABLE and the branch on its result.  A key
\* attribute that is empty or missing is no key: the table answers such a
\* call with a rejection only.
FbGetItem(r) ==
  /\ fb[r].pc = "getItem"
  /\ fb[r].event.imageHash # ""
  /\ LET existing == commentTable[FbKey(r)] IN
       IF existing = NoItem
         THEN fb' = [fb EXCEPT ![r].pc = "putItem"]
       ELSE IF SameVote(existing.Type, fb[r].event.feedbackType)
         THEN FbDone(r, FbOk(r, "Feedback already received"))
       ELSE fb' = [fb EXCEPT ![r].pc = "updateFeedback",
                             ![r].existingType = existing.Type]
  /\ UNCHANGED <<imageTable, commentTable, s3Bucket, up>>

\* UpdateItemCommand(updateFeedbackParams)
FbUpdateFeedback(r) ==
  /\ fb[r].pc = "updateFeedback"
  /\ commentTable' = [commentTable EXCEPT ![FbKey(r)] =
       UpdateFeedbackItem(@, fb[r].event.imageHash, fb[r].event.userId,
                          fb[r].event.feedbackType, fb[r].event.comment, Now(r))]
  /\ fb' = [fb EXCEPT ![r].pc = "updateCountChanged"]
  /\ UNCHANGED <<imageTable, s3Bucket, up>>

\* The changed-vote branch without its counter update.
FbUpdateCountChanged_Skipped(r) ==
  /\ fb[r].pc = "updateCountChanged"
  /\ FbDone(r, FbOk(r, "Feedback updated successfully")
                 @@ [previousFeedback |-> fb[r].existingType])
  /\ UNCHANGED <<imageTable, commentTable, s3Bucket, up>>

\* UpdateItemCommand(updateCountParams) of the changed-vote branch.
FbUpdateCountChanged(r) ==
  /\ fb[r].pc = "updateCountChanged"
  /\ imageTable' = [imageTable EXCEPT ![fb[r].event.imageHash] =
       AddChangedVote(@, fb[r].event.imageHash, fb[r].event.feedbackType,
                      fb[r].existingType)]
  /\ FbDone(r, FbOk(r, "Feedback updated successfully")
                 @@ [previousFeedback |-> fb[r].existingType])
  /\ UNCHANGED <<commentTable, s3Bucket, up>>

\* PutItemCommand(putParams): no ConditionExpression, the item is replaced.
FbPutItem(r) ==
  /\ fb[r].pc = "putItem"
  /\ commentTable' = [commentTable EXCEPT ![FbKey(r)] =
       FeedbackItem(fb[r].event.imageHash, fb[r].event.userId,
                    fb[r].event.feedbackType, fb[r].event.comment, Now(r))]
  /\ fb' = [fb EXCEPT ![r].pc = "updateCount"]
  /\ UNCHANGED <<imageTable, s3Bucket, up>>

\* UpdateItemCommand(updateCountParams) of the first-vote branch.
FbUpdateCount(r) ==
  /\ fb[r].pc = "updateCount"
  /\ imageTable' = [imageTable EXCEPT ![fb[r].event.imageHash] =
       AddFirstVote(@, fb[r].event.imageHash, fb[r].event.feedbackType)]
  /\ FbDone(r, FbOk(r, "Feedback submitted successfully"))
  /\ UNCHANGED <<commentTable, s3Bucket, up>>

\* A catch that undoes the record write when the counter update rejects.
FbStorageError_RollsBack(r) ==
  /\ fb[r].pc \in {"updateFeedback", "updateCountChanged", "putItem", "updateCount"}
  /\ FbDone(r, IF fb[r].pc \in {"updateFeedback", "updateCountChanged"}
                 THEN FbError(500, "Failed to update feedback")
                 ELSE FbError(500, "Failed to submit feedback"))
  /\ commentTable' = IF fb[r].pc = "updateCount"
                       THEN [commentTable EXCEPT ![FbKey(r)] = NoItem]
                       ELSE commentTable
  /\ UNCHANGED <<imageTable, s3Bucket, up>>

\* The pending storage call rejects.  The writes are inside a try block
\* whose catch answers 500.
FbStorageError(r) ==
  /\ fb[r].pc \in {"updateFeedback", "updateCountChanged", "putItem", "updateCount"}
  /\ FbDone(r, IF fb[r].pc \in {"updateFeedback", "updateCountChanged"}
                 THEN FbError(500, "Failed to update feedback")
                 ELSE FbError(500, "Failed to submit feedback"))
  /\ UNCHANGED <<imageTable, commentTable, s3Bucket, up>>

\* The GetItem rejects.  It is outside every try block: the handler's
\* promise rejects and no response is built.
FbGetItemError(r) ==
  /\ fb[r].pc = "getItem"
  /\ fb' = [fb EXCEPT ![r].pc = "threw"]
  /\ UNCHANGED <<imageTable, commentTable, s3Bucket, up>>

FbStep(r) ==
  \/ FbGetItem(r)
  \/ FbUpdateFeedback(r)
  \/ FbUpdateCountChanged(r)
  \/ FbPutItem(r)
  \/ FbUpdateCount(r)
  \/ FbStorageError(r)
  \/ FbGetItemError(r)

FbInFlight(r) == fb[r].pc \notin {"idle", "done", "threw"}

\* A feedback request arrives when no other request is in flight.
SubmitFeedbackAlone(r) ==
  /\ FbStartable(r, MaxSeqFeedback)
  /\ \A q \in FeedbackIds : ~FbInFlight(q)
  /\ \E ev \in FeedbackEvents : FbReceive(r, ev)

\* A first vote on image A arrives from a user no other request comes from.
SubmitFirstVote(r) ==
  /\ FbStartable(r, MaxVoters)
  /\ \E t \in VoteTypes :
       FbReceive(r, [httpMethod |-> "POST", imageHash |-> "hA", userId |-> Voter(r),
                     feedbackType |-> t, comment |-> ""])

\* A vote on image A arrives from the user whose up vote is stored.
SubmitVoteOfVoter(r) ==
  /\ FbStartable(r, MaxFeedback)
  /\ \E t \in VoteTypes, c \in Comments :
       FbReceive(r, [httpMethod |-> "POST", imageHash |-> "hA", userId |-> "u1",
                     feedbackType |-> t, comment |-> c])

\* allowedOrigins of the feedback handler, in the order of the array.
feedbackAllowedOrigins ==
  <<"https://www.linkedin.com", "https://www.facebook.com", "https://www.twitter.com",
    "https://www.x.com", "https://www.instagram.com", "https://www.reddit.com",
    "https://realeyes.ai", "https://api.realeyes.ai">>

Range(seq) == {seq[i] : i \in DOMAIN seq}

\* The values of the x-origin, origin and referer headers of a request;
\* "" stands for a header that is not sent.
XOriginHeaders == {"", "https://www.x.com/home", "https://evil.example", "x.com"}
OriginHeaders == {"", "https://realeyes.ai", "https://evil.example"}
RefererHeaders == {"", "https://www.reddit.com/r/pics", "https://evil.example/page"}
RequestHeaders == [xOrigin : XOriginHeaders, origin : OriginHeaders, referer : RefererHeaders]

\* What new URL(...) does with a string that is no absolute URL.
InvalidURL == "TypeError: Invalid URL"
null == "null"

\* new URL(url).origin: scheme and host of an absolute URL; the constructor
\* throws on any other string.
urlOrigin(url) ==
  CASE url = "https://www.x.com/home" -> "https://www.x.com"
    [] url = "https://evil.example" -> "https://evil.example"
    [] OTHER -> InvalidURL

\* referer.startsWith(allowedOrigin)
startsWith(referer, allowedOrigin) ==
  \/ referer = "https://www.reddit.com/r/pics" /\ allowedOrigin = "https://www.reddit.com"
  \/ referer = allowedOrigin /\ referer # ""

\* The first entry of the allow-list the referer starts with, or null.
refererOrigin(referer) ==
  LET matches == {i \in DOMAIN feedbackAllowedOrigins :
                    startsWith(referer, feedbackAllowedOrigins[i])}
  IN IF referer = "" \/ matches = {} THEN null
     ELSE feedbackAllowedOrigins[CHOOSE i \in matches : \A j \in matches : i <= j]

\* getValidOrigin: x-origin, then origin, then referer; InvalidURL stands
\* for the exception of new URL(xOrigin), which the function does not catch.
getValidOrigin(headers) ==
  IF headers.xOrigin # "" /\ urlOrigin(headers.xOrigin) = InvalidURL
    THEN InvalidURL
  ELSE IF headers.xOrigin # "" /\ urlOrigin(headers.xOrigin) \in Range(feedbackAllowedOrigins)
    THEN urlOrigin(headers.xOrigin)
  ELSE IF headers.origin # "" /\ headers.origin \in Range(feedbackAllowedOrigins)
    THEN headers.origin
  ELSE refererOrigin(headers.referer)

\* corsHeaders["Access-Control-Allow-Origin"], the header of every response
\* of the request.
allowOrigin(origin) ==
  IF origin \in Range(feedbackAllowedOrigins) THEN origin ELSE feedbackAllowedOrigins[1]

\* A vote arrives with any x-origin, origin and referer headers.  The
\* handler resolves the origin first, outside every try block.
SubmitWithHeaders(r) ==
  /\ FbStartable(r, MaxFeedback)
  /\ \E headers \in RequestHeaders, t \in VoteTypes :
       LET ev == [httpMethod |-> "POST", imageHash |-> "hA", userId |-> "u1",
                  feedbackType |-> t, comment |-> "", headers |-> headers]
       IN IF getValidOrigin(headers) = InvalidURL
            THEN /\ fb' = [fb EXCEPT ![r] = [pc |-> "threw", event |-> ev,
                               existingType |-> Absent, response |-> Absent]]
                 /\ UNCHANGED <<imageTable, commentTable, s3Bucket, up>>
            ELSE FbReceive(r, ev)

\* ================================================== ingestion handler ====
\* The multipart uploads received by the ingestion handler.
UploadEvents ==
  [fileData : Bytes, fileName : FileNames, origin : Origins,
   mimeType : {"image/jpeg"}, urlFormat : {""}]

\* Item of the PutItemCommand of a new upload.
NewImageItem(imageHash, pHash, s3ObjectUrl, uploadDate, fileName, origin, fileExtension, extensionSource) ==
  [ImageHash |-> imageHash, PHash |-> pHash, s3ObjectUrl |-> s3ObjectUrl,
   uploadDate |-> uploadDate, originalFileName |-> fileName,
   originWebsites |-> {origin}, requestCount |-> 1,
   fileExtension |-> fileExtension, extensionSource |-> extensionSource]

\* PutItemCommand on the image table: no ConditionExpression, whatever is
\* stored under the key is replaced by the new item.
PutImageItem(stored, item) == item

\* The members of an SS attribute value as they reach the table: undefined
\* is no string and is not stored.
StringSet(values) == values \ {NoOrigin}

\* new Set(item.originWebsites ? item.originWebsites.SS : []).add(origin),
\* from the item as it was read by the lookup.
updatedOriginWebsites(readItem, origin) ==
  (IF Has(readItem, "originWebsites") THEN readItem.originWebsites ELSE {})
    \cup {origin}

\* UpdateExpression "SET originWebsites = :websites, requestCount =
\* if_not_exists(requestCount, :start) + :inc" on the stored item.
UpdateExisting(stored, imageHash, websites) ==
  LET base == ImageItemOrKey(stored, imageHash)
  IN SetAttr(SetAttr(base, "originWebsites", websites), "requestCount",
             (IF Has(base, "requestCount") THEN base.requestCount ELSE 0) + 1)

\* An index that never answers a match.
QueryPHash_Empty(table, pHash) == {}

\* QueryCommand on PHashIndex: the items whose PHash is pHash.
QueryPHash(table, pHash) ==
  {table[h] : h \in {k \in Hashes : table[k] # NoItem /\ Has(table[k], "PHash")
                                     /\ table[k].PHash = pHash}}

\* Buffer.compare(fileData, s3Data) === 0
isDataEqual(fileData, s3Data) == fileData = s3Data

UpHash(r) == sha256Hash(up[r].event.fileData)

UpExt(r) ==
  getFileExtensionFromData(up[r].event.fileName, up[r].event.urlFormat,
                           up[r].event.mimeType, up[r].event.fileData)

\* A key with a per-request part: successive requests write different keys.
UpS3Key_PerRequest(r) ==
  s3KeyOf(UpHash(r), IF r % 2 = 0 THEN extname("cat.png") ELSE extname("cat.jpg"))

UpS3Key(r) == s3KeyOf(UpHash(r), UpExt(r).ext)

UpDone(r, response) == up' = [up EXCEPT ![r].pc = "done", ![r].response = response]

UpInternalError == [statusCode |-> 500, error |-> "Internal server error"]

\* The answer built from the item as the lookup read it, not from the
\* attributes the update returned.
UpExistsResponse_Stale(r, message, updatedItem) ==
  LET readItem == IF up[r].exactDuplicate # NoItem
                    THEN up[r].exactDuplicate ELSE up[r].similarImage
  IN [statusCode |-> 200, message |-> message, imageHash |-> UpHash(r),
      pHash |-> calculatePHash(up[r].event.fileData),
      s3ObjectUrl |-> readItem.s3ObjectUrl,
      originWebsites |-> readItem.originWebsites,
      requestCount |-> readItem.requestCount]

\* Body of the 200 answer of the duplicate and similar branches, built from
\* the attributes UpdateItem returned (ALL_NEW).
UpExistsResponse(r, message, updatedItem) ==
  [statusCode |-> 200, message |-> message, imageHash |-> UpHash(r),
   pHash |-> calculatePHash(up[r].event.fileData),
   s3ObjectUrl |-> updatedItem.s3ObjectUrl,
   originWebsites |-> updatedItem.originWebsites,
   requestCount |-> updatedItem.requestCount]

\* Body of the 200 answer of the new-upload branch.
UpNewResponse(r) ==
  [statusCode |-> 200, message |-> "Image uploaded successfully",
   imageHash |-> UpHash(r), pHash |-> calculatePHash(up[r].event.fileData),
   s3ObjectUrl |-> UpS3Key(r), dataMatch |-> up[r].isDataEqual,
   originalFileName |-> up[r].event.fileName,
   originWebsites |-> {up[r].event.origin}, requestCount |-> 1,
   fileExtension |-> UpExt(r).ext, extensionSource |-> UpExt(r).extensionSource]

\* Requests are interchangeable: they are started in the order of their ids.
UpStartable(r, limit) ==
  /\ r <= limit
  /\ up[r].pc = "idle"
  /\ \A q \in UploadIds : q < r => up[q].pc # "idle"

\* Entry of the handler: parse, both hashes, then both lookups are issued.
\* calculatePHash throws on a buffer sharp cannot decode: the catch block
\* answers 500 before any lookup.
UpReceive(r, ev) ==
  /\ up' = [up EXCEPT ![r] =
       [pc |-> IF sharpDecodes(ev.fileData) THEN "lookup" ELSE "done",
        event |-> ev,
        gotExact |-> FALSE, exactDuplicate |-> NoItem,
        gotSimilar |-> FALSE, similarImage |-> NoItem,
        s3Data |-> NoObject, isDataEqual |-> FALSE,
        response |-> IF sharpDecodes(ev.fileData) THEN Absent ELSE UpInternalError]]
  /\ UNCHANGED <<imageTable, commentTable, s3Bucket, fb>>

\* An upload arrives while others may be in flight.
Upload(r) ==
  /\ UpStartable(r, MaxUploads)
  /\ \E ev \in UploadEvents : UpReceive(r, ev)

\* An upload of the bytes A arrives (any file name, any origin).
UploadSameBytes(r) ==
  /\ UpStartable(r, MaxSameBytes)
  /\ \E ev \in {e \in UploadEvents : e.fileData = "A"} : UpReceive(r, ev)

\* An upload arrives at a store that already holds image A.
Reupload(r) ==
  /\ UpStartable(r, MaxReuploads)
  /\ \E ev \in UploadEvents : UpReceive(r, ev)

\* The files of uploads of any kind: the JPEG A, a buffer that is no image
\* sent under a JPEG name, and a TIFF picture sent as what it is.
AnyFiles ==
  [fileData : {"A"} \cup Undecodable, fileName : {"cat.jpg"}, mimeType : {"image/jpeg"}]
    \cup [fileData : Unlisted, fileName : {"scan.tiff"}, mimeType : {"image/tiff"}]

\* An upload arrives whose bytes are image A, no image at all, or a
\* picture of a format outside the accepted ones.
UploadAnyBytes(r) ==
  /\ UpStartable(r, MaxAnyBytes)
  /\ \E f \in AnyFiles, o \in Origins :
       UpReceive(r, [fileData |-> f.fileData, fileName |-> f.fileName, origin |-> o,
                     mimeType |-> f.mimeType, urlFormat |-> ""])

\* The callers the service answers with their own origin in the CORS header.
allowedOrigins ==
  {"https://www.linkedin.com", "https://www.facebook.com", "https://www.twitter.com",
   "https://www.x.com", "https://www.instagram.com", "https://www.reddit.com",
   "https://realeyes.ai"}

\* An upload arrives with an Origin header of a known caller, of an unknown
\* one, or without an Origin header.
UploadAnyOrigin(r) ==
  /\ UpStartable(r, MaxAnyOrigin)
  /\ \E b \in Bytes, o \in {"https://realeyes.ai", "https://evil.example", NoOrigin} :
       UpReceive(r, [fileData |-> b, fileName |-> "cat.jpg", origin |-> o,
                     mimeType |-> "image/jpeg", urlFormat |-> ""])

\* The files of uploads that arrive one at a time: A, its lookalike A2 and
\* a picture that looks like neither.
SeqFiles ==
  [fileData : Bytes, fileName : {"cat.jpg"}, mimeType : {"image/jpeg"}]
    \cup [fileData : Unlisted, fileName : {"scan.tiff"}, mimeType : {"image/tiff"}]

\* An upload arrives when no other upload is in flight.
UploadAlone(r) ==
  /\ UpStartable(r, MaxSeqAnyUploads)
  /\ \A q \in UploadIds : up[q].pc \in {"idle", "done"}
  /\ \E f \in SeqFiles :
       UpReceive(r, [fileData |-> f.fileData, fileName |-> f.fileName,
                     origin |-> "https://realeyes.ai",
                     mimeType |-> f.mimeType, urlFormat |-> ""])

\* An upload of A or of its lookalike A2 arrives while others may be in
\* flight.
UploadAnyPicture(r) ==
  /\ UpStartable(r, MaxLiveUploads)
  /\ \E b \in Bytes :
       UpReceive(r, [fileData |-> b, fileName |-> "cat.jpg",
                     origin |-> "https://realeyes.ai",
                     mimeType |-> "image/jpeg", urlFormat |-> ""])

\* The Origin headers of uploads that arrive one at a time.
SeqOrigins == Origins \cup {"https://www.x.com"}

\* An upload of the bytes A arrives when no other upload is in flight.
UploadSameBytesAlone(r) ==
  /\ UpStartable(r, MaxSeqUploads)
  /\ \A q \in UploadIds : up[q].pc \in {"idle", "done"}
  /\ \E o \in SeqOrigins :
       UpReceive(r, [fileData |-> "A", fileName |-> "cat.jpg", origin |-> o,
                     mimeType |-> "image/jpeg", urlFormat |-> ""])

\* An upload of A or of its lookalike A2 arrives at a store that holds a
\* record for each of them.
UploadLookalike(r) ==
  /\ UpStartable(r, MaxLookalikes)
  /\ \E ev \in {e \in UploadEvents : e.fileName = "cat.jpg"} : UpReceive(r, ev)

\* The else-if chain with its first two tests exchanged.
UpBranch_SimilarFirst(exactDuplicate, similarImage) ==
  IF similarImage # NoItem THEN "updateSimilar"
  ELSE IF exactDuplicate # NoItem THEN "updateDuplicate"
  ELSE "putObject"

\* The branch taken once both lookups of Promise.all have answered.
UpBranch(exactDuplicate, similarImage) ==
  IF exactDuplicate # NoItem THEN "updateDuplicate"
  ELSE IF similarImage # NoItem THEN "updateSimilar"
  ELSE "putObject"

\* GetItemCommand by ImageHash answers.
UpGetItem(r) ==
  /\ up[r].pc = "lookup" /\ ~up[r].gotExact
  /\ LET item == imageTable[UpHash(r)] IN
       up' = [up EXCEPT ![r].gotExact = TRUE, ![r].exactDuplicate = item,
                ![r].pc = IF up[r].gotSimilar
                            THEN UpBranch(item, up[r].similarImage) ELSE "lookup"]
  /\ UNCHANGED <<imageTable, commentTable, s3Bucket, fb>>

\* QueryCommand on PHashIndex answers; Items[0] is any of the matches.
UpQuery(r) ==
  /\ up[r].pc = "lookup" /\ ~up[r].gotSimilar
  /\ LET Items == QueryPHash(imageTable, calculatePHash(up[r].event.fileData)) IN
       \E first \in (IF Items = {} THEN {NoItem} ELSE Items) :
         up' = [up EXCEPT ![r].gotSimilar = TRUE, ![r].similarImage = first,
                  ![r].pc = IF up[r].gotExact
                              THEN UpBranch(up[r].exactDuplicate, first) ELSE "lookup"]
  /\ UNCHANGED <<imageTable, commentTable, s3Bucket, fb>>

\* The update with the new count computed by the handler from the item it
\* read: SET requestCount = :count, with :count the read count plus one.
UpUpdateItem_ReadModifyWrite(r, key, readItem, message) ==
  LET websites == updatedOriginWebsites(readItem, up[r].event.origin)
      updatedItem == SetAttr(UpdateExisting(imageTable[key], key, StringSet(websites)),
                             "requestCount", readItem.requestCount + 1)
  IN /\ StringSet(websites) # {}
     /\ imageTable' = [imageTable EXCEPT ![key] = updatedItem]
     /\ UpDone(r, UpExistsResponse(r, message, updatedItem))
     /\ UNCHANGED <<commentTable, s3Bucket, fb>>

\* The UpdateItemCommand of the duplicate / similar branch on the item of
\* `key', then the answer built from the returned attributes.  Reading
\* s3ObjectUrl of an item that has none throws into the catch block.
\* A set holding undefined is either sent without it or rejected, and an
\* empty set is rejected: then the catch block answers 500.
UpUpdateItem(r, key, readItem, message) ==
  LET websites == updatedOriginWebsites(readItem, up[r].event.origin)
      updatedItem == UpdateExisting(imageTable[key], key, StringSet(websites))
  IN /\ \/ /\ StringSet(websites) # {}
           /\ imageTable' = [imageTable EXCEPT ![key] = updatedItem]
           /\ IF Has(updatedItem, "s3ObjectUrl")
                THEN UpDone(r, UpExistsResponse(r, message, updatedItem))
                ELSE UpDone(r, UpInternalError)
        \/ /\ NoOrigin \in websites
           /\ UpDone(r, UpInternalError)
           /\ UNCHANGED imageTable
     /\ UNCHANGED <<commentTable, s3Bucket, fb>>

UpUpdateDuplicate(r) ==
  /\ up[r].pc = "updateDuplicate"
  /\ UpUpdateItem(r, UpHash(r), up[r].exactDuplicate, "File already exists")

\* The similar branch with its UpdateItem keyed by sha256Hash instead of
\* similarImage.ImageHash.S.
UpUpdateSimilar_OwnKey(r) ==
  /\ up[r].pc = "updateSimilar"
  /\ UpUpdateItem(r, UpHash(r), up[r].similarImage, "Similar file exists")

UpUpdateSimilar(r) ==
  /\ up[r].pc = "updateSimilar"
  /\ UpUpdateItem(r, up[r].similarImage.ImageHash, up[r].similarImage,
                  "Similar file exists")

\* PutObjectCommand
UpPutObject(r) ==
  /\ up[r].pc = "putObject"
  /\ s3Bucket' = [s3Bucket EXCEPT ![UpS3Key(r)] = up[r].event.fileData]
  /\ up' = [up EXCEPT ![r].pc = "getObject"]
  /\ UNCHANGED <<imageTable, commentTable, fb>>

\* GetObjectCommand and the comparison: the bucket returns the stored
\* bytes, or other bytes when the object was corrupted or truncated.
UpGetObject(r) ==
  /\ up[r].pc = "getObject"
  /\ s3Bucket[UpS3Key(r)] # NoObject
  /\ \E s3Data \in {s3Bucket[UpS3Key(r)], Corrupt} :
       up' = [up EXCEPT ![r].pc = "putItem", ![r].s3Data = s3Data,
                ![r].isDataEqual = isDataEqual(up[r].event.fileData, s3Data)]
  /\ UNCHANGED <<imageTable, commentTable, s3Bucket, fb>>

\* PutItemCommand of the new record, then the 200 answer.  The item's
\* originWebsites is { SS: [origin] }: without an origin there is no string
\* to store, the table takes no empty set, and the call rejects into the
\* catch block.
UpPutItem(r) ==
  /\ up[r].pc = "putItem"
  /\ IF StringSet({up[r].event.origin}) = {}
       THEN /\ UpDone(r, UpInternalError)
            /\ UNCHANGED imageTable
       ELSE /\ imageTable' = [imageTable EXCEPT ![UpHash(r)] =
                 PutImageItem(@, NewImageItem(UpHash(r),
                                   calculatePHash(up[r].event.fileData),
                                   UpS3Key(r), Now(r), up[r].event.fileName,
                                   up[r].event.origin, UpExt(r).ext,
                                   UpExt(r).extensionSource))]
            /\ UpDone(r, UpNewResponse(r))
  /\ UNCHANGED <<commentTable, s3Bucket, fb>>

\* A catch block that starts the new-upload path again when the record
\* write is rejected.
UpStorageError_Retries(r) ==
  /\ up[r].pc \in {"lookup", "updateDuplicate", "updateSimilar",
                   "putObject", "getObject", "putItem"}
  /\ IF up[r].pc = "putItem"
       THEN up' = [up EXCEPT ![r].pc = "putObject"]
       ELSE UpDone(r, UpInternalError)
  /\ UNCHANGED <<imageTable, commentTable, s3Bucket, fb>>

\* A rejected read-back that is swallowed: the handler goes on to the
\* record write.
UpStorageError_Swallowed(r) ==
  /\ up[r].pc \in {"lookup", "updateDuplicate", "updateSimilar",
                   "putObject", "getObject", "putItem"}
  /\ IF up[r].pc = "getObject"
       THEN up' = [up EXCEPT ![r].pc = "putItem"]
       ELSE UpDone(r, UpInternalError)
  /\ UNCHANGED <<imageTable, commentTable, s3Bucket, fb>>

\* A pending storage call rejects: the catch block answers 500.
UpStorageError(r) ==
  /\ up[r].pc \in {"lookup", "updateDuplicate", "updateSimilar",
                   "putObject", "getObject", "putItem"}
  /\ UpDone(r, UpInternalError)
  /\ UNCHANGED <<imageTable, commentTable, s3Bucket, fb>>

UpStep(r) ==
  \/ UpGetItem(r)
  \/ UpQuery(r)
  \/ UpUpdateDuplicate(r)
  \/ UpUpdateSimilar(r)
  \/ UpPutObject(r)
  \/ UpGetObject(r)
  \/ UpPutItem(r)
  \/ UpStorageError(r)

\* The steps of an upload when every storage call is served.
UpStepServed(r) ==
  \/ UpGetItem(r)
  \/ UpQuery(r)
  \/ UpUpdateDuplicate(r)
  \/ UpUpdateSimilar(r)
  \/ UpPutObject(r)
  \/ UpGetObject(r)
  \/ UpPutItem(r)

UpInFlight(r) == up[r].pc \notin {"idle", "done"}

\* ------------------------------------------------------ initial states
Init ==
  /\ imageTable = [h \in Hashes |-> NoItem]
  /\ commentTable = [k \in Hashes \X AllUsers |-> NoItem]
  /\ s3Bucket = [k \in S3Keys |-> NoObject]
  /\ up = [r \in UploadIds |-> IdleUpload]
  /\ fb = [r \in FeedbackIds |-> IdleFeedback]

\* The state after image A has been ingested once (from realeyes.ai as
\* cat.jpg) and that request has returned: where feedback and re-upload start from.
InitStored ==
  /\ imageTable = [h \in Hashes |->
       IF h = "hA"
         THEN NewImageItem("hA", "pA", s3KeyOf("hA", ".jpg"), 0, "cat.jpg",
                           "https://realeyes.ai", ".jpg", "filename")
         ELSE NoItem]
  /\ commentTable = [k \in Hashes \X AllUsers |-> NoItem]
  /\ s3Bucket = [k \in S3Keys |-> IF k = s3KeyOf("hA", ".jpg") THEN "A" ELSE NoObject]
  /\ up = [r \in UploadIds |-> IdleUpload]
  /\ fb = [r \in FeedbackIds |-> IdleFeedback]

\* The state after A and its lookalike A2 were ingested at the same time
\* (each looked up before the other wrote its record) and both requests
\* have returned: two records share one perceptual hash.
InitLookalikes ==
  /\ imageTable = [h \in Hashes |->
       IF h = "hA"
         THEN NewImageItem("hA", "pA", s3KeyOf("hA", ".jpg"), 0, "cat.jpg",
                           "https://realeyes.ai", ".jpg", "filename")
       ELSE IF h = "hA2"
         THEN NewImageItem("hA2", "pA", s3KeyOf("hA2", ".jpg"), 0, "cat.jpg",
                           "https://realeyes.ai", ".jpg", "filename")
       ELSE NoItem]
  /\ commentTable = [k \in Hashes \X AllUsers |-> NoItem]
  /\ s3Bucket = [k \in S3Keys |->
       IF k = s3KeyOf("hA", ".jpg") THEN "A"
       ELSE IF k = s3KeyOf("hA2", ".jpg") THEN "A2"
       ELSE NoObject]
  /\ up = [r \in UploadIds |-> IdleUpload]
  /\ fb = [r \in FeedbackIds |-> IdleFeedback]

\* The state after image A was ingested and user u1 voted up on it.
InitVoted ==
  /\ imageTable = [h \in Hashes |->
       IF h = "hA"
         THEN AddFirstVote(NewImageItem("hA", "pA", s3KeyOf("hA", ".jpg"), 0, "cat.jpg",
                                        "https://realeyes.ai", ".jpg", "filename"),
                           "hA", "up")
         ELSE NoItem]
  /\ commentTable = [k \in Hashes \X AllUsers |->
       IF k = <<"hA", "u1">> THEN FeedbackItem("hA", "u1", "up", "", 0) ELSE NoItem]
  /\ s3Bucket = [k \in S3Keys |-> IF k = s3KeyOf("hA", ".jpg") THEN "A" ELSE NoObject]
  /\ up = [r \in UploadIds |-> IdleUpload]
  /\ fb = [r \in FeedbackIds |-> IdleFeedback]

Next == \E r \in UploadIds : Upload(r) \/ UpStep(r)

\* Ingestion requests under any interleaving, from empty stores.
Spec == Init /\ [][Next]_vars

NextSameBytes == \E r \in UploadIds : UploadSameBytes(r) \/ UpStep(r)

\* Repeated ingestion of byte-identical content, from empty stores.
SpecSameBytes == Init /\ [][NextSameBytes]_vars

\* With image A stored and never deleted, every upload of A finds it by
\* hash and every upload of A2 finds it by perceptual hash: the new-upload
\* branch is not taken.
NextReupload ==
  \E r \in UploadIds :
    \/ Reupload(r)
    \/ UpGetItem(r)
    \/ UpQuery(r)
    \/ UpUpdateDuplicate(r)
    \/ UpUpdateSimilar(r)
    \/ UpStorageError(r)

\* Ingestion requests under any interleaving, image A already stored.
SpecReupload == InitStored /\ [][NextReupload]_vars

\* Every upload finds its own record by hash: only the duplicate branch is
\* taken.
NextLookalikes ==
  \E r \in UploadIds :
    \/ UploadLookalike(r)
    \/ UpGetItem(r)
    \/ UpQuery(r)
    \/ UpUpdateDuplicate(r)
    \/ UpStorageError(r)

\* Uploads of two byte sequences that share one perceptual hash, both
\* already stored.
SpecLookalikes == InitLookalikes /\ [][NextLookalikes]_vars

\* One at a time, an upload of A finds either nothing or its own record:
\* the similar branch is not taken.
NextSameBytesSeq ==
  \E r \in UploadIds :
    \/ UploadSameBytesAlone(r)
    \/ UpGetItem(r)
    \/ UpQuery(r)
    \/ UpUpdateDuplicate(r)
    \/ UpPutObject(r)
    \/ UpGetObject(r)
    \/ UpPutItem(r)
    \/ UpStorageError(r)

\* Repeated ingestion of byte-identical content, one upload at a time.
SpecSameBytesSeq == Init /\ [][NextSameBytesSeq]_vars

NextSeq == \E r \in UploadIds : UploadAlone(r) \/ UpStep(r)

\* Uploads of any of three pictures, one at a time, from empty stores.
SpecSeq == Init /\ [][NextSeq]_vars

NextLive == \E r \in UploadIds : UploadAnyPicture(r) \/ UpStep(r)

\* Uploads under any interleaving, where every storage call of a request
\* in flight returns or fails.
SpecLive == Init /\ [][NextLive]_vars /\ \A r \in 1..MaxLiveUploads : WF_vars(UpStep(r))

NextAnyOrigin == \E r \in UploadIds : UploadAnyOrigin(r) \/ UpStepServed(r)

\* Uploads with or without an Origin header, from empty stores, while the
\* table and the bucket serve every call.
SpecAnyOrigin == Init /\ [][NextAnyOrigin]_vars

NextAnyBytes == \E r \in UploadIds : UploadAnyBytes(r) \/ UpStep(r)

\* Uploads of decodable and undecodable buffers, from empty stores.
SpecAnyBytes == Init /\ [][NextAnyBytes]_vars

NextFeedback == \E r \in FeedbackIds : SubmitFeedback(r) \/ FbStep(r)

NextAnyFeedback == \E r \in FeedbackIds : SubmitAnyFeedback(r) \/ FbStep(r)

NextAuthFeedback == \E r \in FeedbackIds : SubmitAuthFeedback(r) \/ FbStep(r)

NextFeedbackSeq == \E r \in FeedbackIds : SubmitFeedbackAlone(r) \/ FbStep(r)

\* No request finds a FeedbackRecord of its user: only the first-vote
\* branch is taken.
NextFirstVotes ==
  \E r \in FeedbackIds :
    \/ SubmitFirstVote(r)
    \/ FbGetItem(r)
    \/ FbPutItem(r)
    \/ FbUpdateCount(r)
    \/ FbStorageError(r)
    \/ FbGetItemError(r)

\* First votes of distinct users on one image, under any interleaving.
SpecFirstVotes == InitStored /\ [][NextFirstVotes]_vars

\* Every request finds the FeedbackRecord of its user: the first-vote
\* branch is not taken.
NextVoteChanges ==
  \E r \in FeedbackIds :
    \/ SubmitVoteOfVoter(r)
    \/ FbGetItem(r)
    \/ FbUpdateFeedback(r)
    \/ FbUpdateCountChanged(r)
    \/ FbStorageError(r)
    \/ FbGetItemError(r)

\* Votes of a user whose vote is stored, under any interleaving.
SpecVoteChanges == InitVoted /\ [][NextVoteChanges]_vars

NextCors == \E r \in FeedbackIds : SubmitWithHeaders(r) \/ FbStep(r)

\* Votes of one user with any origin headers, under any interleaving.
SpecCors == InitStored /\ [][NextCors]_vars

\* Feedback requests under any interleaving.
SpecFeedback == InitStored /\ [][NextFeedback]_vars

\* Requests of any shape to the feedback endpoint, under any interleaving.
SpecAnyFeedback == InitStored /\ [][NextAnyFeedback]_vars

\* Feedback requests with and without token, one at a time.
SpecAuthFeedback == InitStored /\ [][NextAuthFeedback]_vars

\* Feedback requests one at a time.
SpecFeedbackSeq == InitStored /\ [][NextFeedbackSeq]_vars

\* ======================================================= feedback claims ==
\* The value of a thumbs counter of an image (0 when never added to).
Thumbs(table, imageHash, name) ==
  IF table[imageHash] = NoItem THEN 0
  ELSE IF Has(table[imageHash], name) THEN table[imageHash][name] ELSE 0

Voters(imageHash) == {u \in AllUsers : commentTable[<<imageHash, u>>] # NoItem}

FbStarted == {r \in FeedbackIds : fb[r].pc # "idle"}

FbAnswered(r) == fb[r].pc = "done"

\* Request r takes a step from position `from' and ends it at position `to'.
FbMoves(r, from, to) == fb[r].pc = from /\ fb'[r].pc = to

\* C4: in every reachable state, for each image, thumbsUp + thumbsDown
\* equals the number of distinct users holding a FeedbackRecord for it.
C4_SumEqualsVoters ==
  \A h \in Hashes :
    Thumbs(imageTable, h, "ThumbsUp") + Thumbs(imageTable, h, "ThumbsDown")
      = Cardinality(Voters(h))

\* The steps of a request that submits vote w while the stored vote is v.
C7_Step(r) ==
  LET key == FbKey(r)
      h == fb[r].event.imageHash
      w == fb[r].event.feedbackType
      v == fb[r].existingType
  IN /\ (fb[r].pc = "getItem" /\ fb'[r] # fb[r]
           /\ commentTable[key] # NoItem /\ commentTable[key].Type # w)
          => \/ fb'[r].pc = "threw"
             \/ /\ fb'[r].pc = "updateFeedback"
                /\ fb'[r].existingType = commentTable[key].Type
     /\ FbMoves(r, "updateFeedback", "updateCountChanged")
          => /\ commentTable[key].Type = v
             /\ v # w
             /\ commentTable'[key].Type = w
     /\ FbMoves(r, "updateCountChanged", "done") /\ fb'[r].response.statusCode = 200
          => /\ commentTable'[key].Type = w
             /\ Thumbs(imageTable', h, CounterName(w))
                  = Thumbs(imageTable, h, CounterName(w)) + 1
             /\ Thumbs(imageTable', h, CounterName(v))
                  = Thumbs(imageTable, h, CounterName(v)) - 1
             /\ fb'[r].response.message = "Feedback updated successfully"
             /\ fb'[r].response.previousFeedback = v

\* Up then down by the only voter, both answered 200.
C7_UpThenDown ==
  (/\ FbStarted = {1, 2}
   /\ FbAnswered(1) /\ FbAnswered(2)
   /\ fb[1].response.statusCode = 200 /\ fb[2].response.statusCode = 200
   /\ fb[1].event.userId = fb[2].event.userId
   /\ fb[1].event.feedbackType = "up" /\ fb[2].event.feedbackType = "down")
  => /\ Thumbs(imageTable, fb[1].event.imageHash, "ThumbsUp") = 0
     /\ Thumbs(imageTable, fb[1].event.imageHash, "ThumbsDown") = 1
     /\ fb[2].response.previousFeedback = "up"

\* C7: a user whose FeedbackRecord holds vote v and who submits the other
\* vote w, with no other request in flight: the request reads v, rewrites
\* the record to w, then adds 1 to w's counter and -1 to v's counter and
\* answers "Feedback updated successfully" with previousFeedback = v; up
\* then down by the only voter ends with thumbsUp = 0 and thumbsDown = 1.
C7_VoteChange == [][(\A r \in FeedbackIds : C7_Step(r)) /\ C7_UpThenDown']_vars

C7_Witness ==
  /\ FbStarted = {1, 2}
  /\ FbAnswered(1) /\ FbAnswered(2)
  /\ fb[1].response.statusCode = 200
  /\ fb[2].response.statusCode = 200
  /\ fb[2].response.message = "Feedback updated successfully"
  /\ fb[2].response.previousFeedback = "up"
  /\ Thumbs(imageTable, "hA", "ThumbsUp") = 0
  /\ Thumbs(imageTable, "hA", "ThumbsDown") = 1
  /\ commentTable[<<"hA", fb[2].event.userId>>].Type = "down"

\* The steps of a request that submits the vote that is stored.
C8_Step(r) ==
  LET key == FbKey(r)
      w == fb[r].event.feedbackType
  IN /\ (fb[r].pc = "getItem" /\ fb'[r] # fb[r]
           /\ commentTable[key] # NoItem /\ commentTable[key].Type = w)
          => /\ \/ fb'[r].pc = "threw"
                \/ /\ fb'[r].pc = "done"
                   /\ fb'[r].response.statusCode = 200
                   /\ fb'[r].response.message = "Feedback already received"
             /\ UNCHANGED <<imageTable, commentTable, s3Bucket>>
     /\ (fb[r].pc # "done" /\ fb'[r].pc = "done"
           /\ fb'[r].response.statusCode = 200
           /\ fb'[r].response.message = "Feedback already received")
          => /\ fb[r].pc = "getItem"
             /\ commentTable[key] # NoItem
             /\ UNCHANGED <<imageTable, commentTable, s3Bucket>>

\* All started requests are the same user's same vote, all answered 200,
\* one of them as the first vote: the counter is 1.
C8_CountedOnce ==
  (/\ FbStarted # {}
   /\ \A r \in FbStarted :
        /\ FbAnswered(r) /\ fb[r].response.statusCode = 200
        /\ fb[r].event.userId = fb[1].event.userId
        /\ fb[r].event.imageHash = fb[1].event.imageHash
        /\ fb[r].event.feedbackType = fb[1].event.feedbackType
   /\ Cardinality({r \in FbStarted :
         fb[r].response.message = "Feedback submitted successfully"}) = 1)
  => /\ Thumbs(imageTable, fb[1].event.imageHash,
               CounterName(fb[1].event.feedbackType)) = 1
     /\ commentTable[FbKey(1)].Type = fb[1].event.feedbackType

\* C8: a request whose vote equals the vote stored in the user's
\* FeedbackRecord when it reads it writes nothing (tables and bucket
\* unchanged) and answers "Feedback already received"; a request answered
\* that way has taken no other storage step; the vote stays counted once
\* however often it is repeated.
C8_SameVoteNoWrites == [][(\A r \in FeedbackIds : C8_Step(r)) /\ C8_CountedOnce']_vars

C8_Witness ==
  /\ FbStarted = {1, 2}
  /\ FbAnswered(1) /\ FbAnswered(2)
  /\ fb[1].response.statusCode = 200
  /\ fb[1].response.message = "Feedback submitted successfully"
  /\ fb[2].response.statusCode = 200
  /\ fb[2].response.message = "Feedback already received"
  /\ fb[2].event.comment # fb[1].event.comment
  /\ commentTable[FbKey(1)].Comment = fb[1].event.comment
  /\ commentTable[FbKey(1)].Timestamp = Now(1)
  /\ Thumbs(imageTable, fb[1].event.imageHash, CounterName(fb[1].event.feedbackType)) = 1

\* How one step may move the two counters of image h.
C9_Step(h) ==
  LET du == Thumbs(imageTable', h, "ThumbsUp") - Thumbs(imageTable, h, "ThumbsUp")
      dd == Thumbs(imageTable', h, "ThumbsDown") - Thumbs(imageTable, h, "ThumbsDown")
  IN /\ \A r \in FeedbackIds :
          (FbMoves(r, "updateCountChanged", "done")
             /\ fb[r].event.imageHash = h /\ fb'[r].response.statusCode = 200)
            => /\ du = (IF fb[r].event.feedbackType = "up" THEN 1 ELSE -1)
               /\ dd = -du
     /\ (du # 0 \/ dd # 0)
          => \/ du + dd = 0
             \/ \E r \in FeedbackIds :
                  /\ FbMoves(r, "updateCount", "done")
                  /\ du + dd = 1 /\ du >= 0 /\ dd >= 0

\* C9: no step adjusts only one counter for a vote change: the aggregate
\* write of a changed vote moves the new counter by +1 and the old one by
\* -1 in the same step, and every other step that touches the counters is
\* the single +1 of a first vote.
C9_ChangeIsAtomic == [][\A h \in Hashes : C9_Step(h)]_vars

C9_Witness ==
  \E r \in FeedbackIds :
    /\ FbAnswered(r)
    /\ fb[r].response.statusCode = 200
    /\ fb[r].response.message = "Feedback updated successfully"
    /\ fb[r].response.previousFeedback = "down"
    /\ Thumbs(imageTable, fb[r].event.imageHash, "ThumbsUp") = 1
    /\ Thumbs(imageTable, fb[r].event.imageHash, "ThumbsDown") = 0

\* The requests of user u for image h, and the latest of a set of requests.
FbOf(h, u) == {r \in FbStarted : fb[r].event.imageHash = h /\ fb[r].event.userId = u}

LastOf(S) == CHOOSE r \in S : \A q \in S : q <= r

\* C10: after a sequence of feedback submissions of one user for one image
\* that were all answered 200, one FeedbackRecord is stored for the pair
\* and it holds the vote of the last submission; no submission is answered
\* 409.
C10_LastVoteStored ==
  /\ \A r \in FeedbackIds : FbAnswered(r) => fb[r].response.statusCode # 409
  /\ \A h \in FeedbackImageHashes, u \in Users :
       (/\ FbOf(h, u) # {}
        /\ \A r \in FbOf(h, u) : FbAnswered(r) /\ fb[r].response.statusCode = 200)
       => /\ commentTable[<<h, u>>] # NoItem
          /\ commentTable[<<h, u>>].Type = fb[LastOf(FbOf(h, u))].event.feedbackType
          /\ commentTable[<<h, u>>].ImageHash = h
          /\ commentTable[<<h, u>>].UserId = u

C10_Witness ==
  /\ FbStarted = {1, 2, 3}
  /\ \A r \in FbStarted :
       /\ FbAnswered(r) /\ fb[r].response.statusCode = 200
       /\ fb[r].event.userId = "u1"
  /\ fb[1].event.feedbackType = "up"
  /\ fb[2].event.feedbackType = "down"
  /\ fb[3].event.feedbackType = "up"
  /\ commentTable[<<"hA", "u1">>].Type = "up"
  /\ fb[3].response.message = "Feedback updated successfully"

\* ====================================================== ingestion claims ==
UpStarted == {r \in UploadIds : up[r].pc # "idle"}

UpAnswered(r) == up[r].pc = "done"

UpSucceeded(r) == up[r].pc = "done" /\ up[r].response.statusCode = 200

Records(table) == {h \in Hashes : table[h] # NoItem}

\* Request r ran the new-upload branch: both lookups found nothing.
UpFoundNothing(r) ==
  /\ up[r].pc # "idle"
  /\ up[r].gotExact /\ up[r].gotSimilar
  /\ up[r].exactDuplicate = NoItem /\ up[r].similarImage = NoItem

\* The key of the record a duplicate / similar answer was built from.
UpReconciledKey(r) ==
  IF up[r].exactDuplicate # NoItem THEN UpHash(r) ELSE up[r].similarImage.ImageHash

\* C1: two uploads of byte-identical bytes, in any interleaving: when the
\* second of them is answered 200, one ImageRecord exists for the content,
\* that answer is "File already exists" and the stored requestCount is 2.
C1_SecondIsDuplicate ==
  [][\A r, q \in UploadIds :
       (/\ r # q
        /\ UpStarted = {r, q}
        /\ up[r].event.fileData = up[q].event.fileData
        /\ UpSucceeded(q)
        /\ up[r].pc # "done" /\ up'[r].pc = "done"
        /\ up'[r].response.statusCode = 200)
       => /\ up'[r].response.message = "File already exists"
          /\ Records(imageTable') = {UpHash(r)}
          /\ imageTable'[UpHash(r)].requestCount = 2]_vars

\* C2: of two uploads of identical bytes that both found no record and
\* were both answered 200, one created the record and the other was
\* reconciled into it: one "Image uploaded successfully", requestCount 2,
\* both origins recorded.
C2_OneCreationSucceeds ==
  \A r, q \in UploadIds :
    (/\ r # q
     /\ UpFoundNothing(r) /\ UpFoundNothing(q)
     /\ up[r].event.fileData = up[q].event.fileData
     /\ UpSucceeded(r) /\ UpSucceeded(q))
    => /\ ~(/\ up[r].response.message = "Image uploaded successfully"
            /\ up[q].response.message = "Image uploaded successfully")
       /\ imageTable[UpHash(r)].requestCount = 2
       /\ {up[r].event.origin, up[q].event.origin}
            \subseteq imageTable[UpHash(r)].originWebsites

\* C3: a request whose read-back differed from the uploaded buffer is
\* answered 500 and has written no ImageRecord.
C3_MismatchIsFailure ==
  \A r \in UploadIds :
    (/\ UpAnswered(r)
     /\ up[r].s3Data # NoObject
     /\ ~isDataEqual(up[r].event.fileData, up[r].s3Data))
    => /\ up[r].response.statusCode = 500
       /\ ~(/\ imageTable[UpHash(r)] # NoItem
            /\ imageTable[UpHash(r)].uploadDate = Now(r))

\* The origin of every request answered as duplicate or similar is in the
\* set of the record it was reconciled into.
C5_OriginsKept ==
  \A r \in UploadIds :
    (/\ UpSucceeded(r)
     /\ up[r].response.message \in {"File already exists", "Similar file exists"})
    => up[r].event.origin \in imageTable[UpReconciledKey(r)].originWebsites

\* C5: originWebsites only grows from one state to the next, and after
\* concurrent duplicate / similar uploads the origin of each of them is in
\* the set of the record it was reconciled into.
C5_OriginsAppendOnly ==
  [][/\ \A h \in Hashes :
          Has(imageTable[h], "originWebsites")
            => /\ Has(imageTable'[h], "originWebsites")
               /\ imageTable[h].originWebsites \subseteq imageTable'[h].originWebsites
     /\ C5_OriginsKept']_vars

\* C6: requestCount of a record never decreases from one state to the next.
C6_RequestCountMonotonic ==
  [][\A h \in Hashes :
       Has(imageTable[h], "requestCount")
         => /\ Has(imageTable'[h], "requestCount")
            /\ imageTable'[h].requestCount >= imageTable[h].requestCount]_vars

\* Both lookups of request r have answered and both found a record.
UpMatchedBoth(r) ==
  /\ up[r].pc # "idle"
  /\ up[r].gotExact /\ up[r].gotSimilar
  /\ up[r].exactDuplicate # NoItem /\ up[r].similarImage # NoItem

\* C11: an upload that matched a record by contentHash and a record by
\* perceptualHash takes the duplicate branch; its update changes the record
\* keyed by the upload's own contentHash and no other, and a 200 answer is
\* "File already exists" with the values of that record.
C11_BothMatchesIsDuplicate ==
  [][\A r \in UploadIds :
       /\ (UpMatchedBoth(r)' /\ up'[r].pc # "done") => up'[r].pc = "updateDuplicate"
       /\ (UpMatchedBoth(r) /\ up[r].pc # "done" /\ up'[r].pc = "done")
            => /\ up[r].pc = "updateDuplicate"
               /\ \A h \in Hashes \ {UpHash(r)} : imageTable'[h] = imageTable[h]
               /\ up'[r].response.statusCode = 200
                    => /\ up'[r].response.message = "File already exists"
                       /\ imageTable'[UpHash(r)].requestCount
                            = imageTable[UpHash(r)].requestCount + 1
                       /\ up'[r].response.requestCount
                            = imageTable'[UpHash(r)].requestCount]_vars

\* An upload answered as duplicate whose perceptual match was another record.
C11_Witness ==
  \E r \in UploadIds :
    /\ UpSucceeded(r)
    /\ UpMatchedBoth(r)
    /\ up[r].similarImage.ImageHash # UpHash(r)
    /\ up[r].response.message = "File already exists"
    /\ imageTable[UpHash(r)].requestCount = 2
    /\ imageTable[up[r].similarImage.ImageHash].requestCount = 1

StoredBlobs == {k \in S3Keys : s3Bucket[k] # NoObject}

\* C12: an upload classified similar goes from the lookups straight to one
\* UpdateItem addressed by the matched record's own contentHash: the
\* lookups and that update leave the bucket unchanged, no record is
\* created, and no other record is changed.
C12_SimilarOnlyUpdatesMatch ==
  [][\A r \in UploadIds :
       /\ (up[r].pc # "updateSimilar" /\ up'[r].pc = "updateSimilar")
            => /\ up[r].pc = "lookup"
               /\ up'[r].similarImage # NoItem
               /\ UNCHANGED <<imageTable, commentTable, s3Bucket>>
       /\ (up[r].pc = "lookup" /\ up'[r] # up[r])
            => UNCHANGED <<imageTable, commentTable, s3Bucket>>
       /\ (up[r].pc = "updateSimilar" /\ up'[r] # up[r])
            => /\ up'[r].pc = "done"
               /\ UNCHANGED <<commentTable, s3Bucket>>
               /\ Records(imageTable') = Records(imageTable)
               /\ \A h \in Hashes \ {up[r].similarImage.ImageHash} :
                    imageTable'[h] = imageTable[h]
       /\ (up[r].pc # "done" /\ up'[r].pc = "done"
             /\ up'[r].response.statusCode = 200
             /\ up'[r].response.message = "Similar file exists")
            => /\ up[r].pc = "updateSimilar"
               /\ imageTable'[up[r].similarImage.ImageHash].requestCount
                    = imageTable[up[r].similarImage.ImageHash].requestCount + 1]_vars

\* A similar upload was answered: its own contentHash has no record, the
\* match was counted, and the bucket holds the one blob of the match.
C12_Witness ==
  \E r \in UploadIds :
    /\ UpSucceeded(r)
    /\ up[r].response.message = "Similar file exists"
    /\ imageTable[UpHash(r)] = NoItem
    /\ imageTable[up[r].similarImage.ImageHash].requestCount = 2
    /\ Cardinality(StoredBlobs) = 1

\* The uploads up to r that were answered 200.
UpSucceededUpTo(r) == {q \in 1..r : UpSucceeded(q)}

\* C13: uploads of the same bytes one at a time: the first one answered 200
\* is "Image uploaded successfully" with requestCount 1 and its own origin;
\* the i-th one after it is "File already exists" with requestCount i + 1
\* and the origins of all successful uploads so far, as stored.
C13_SequentialDuplicates ==
  \A r \in UploadIds :
    UpSucceeded(r)
      => LET n == Cardinality(UpSucceededUpTo(r))
             origins == {up[q].event.origin : q \in UpSucceededUpTo(r)}
         IN /\ up[r].response.requestCount = n
            /\ up[r].response.originWebsites = origins
            /\ up[r].response.message
                 = (IF n = 1 THEN "Image uploaded successfully"
                    ELSE "File already exists")
            /\ (r = Cardinality(UpStarted))
                 => /\ imageTable[UpHash(r)].requestCount = n
                    /\ imageTable[UpHash(r)].originWebsites = origins

\* Three uploads from three origins, all answered.
C13_Witness ==
  /\ UpStarted = {1, 2, 3}
  /\ \A r \in UpStarted : UpSucceeded(r)
  /\ Cardinality({up[r].event.origin : r \in UpStarted}) = 3
  /\ up[1].response.requestCount = 1
  /\ up[2].response.requestCount = 2
  /\ up[3].response.requestCount = 3
  /\ up[3].response.originWebsites = SeqOrigins

\* C14: an upload that found no record and was answered is answered 200
\* "Image uploaded successfully" with requestCount 1, and its record holds
\* requestCount 1 when it is written; originWebsites is {origin}, or empty
\* when the request has no origin.
C14_NewRecordOrigins ==
  \A r \in UploadIds :
    (UpAnswered(r) /\ UpFoundNothing(r))
      => /\ up[r].response.statusCode = 200
         /\ up[r].response.message = "Image uploaded successfully"
         /\ up[r].response.requestCount = 1
         /\ up[r].response.originWebsites
              = (IF up[r].event.origin = NoOrigin THEN {} ELSE {up[r].event.origin})
         /\ imageTable[UpHash(r)] # NoItem

\* Request r has issued its PutObject.
UpStoredBlob(r) ==
  \/ up[r].pc \in {"getObject", "putItem"}
  \/ up[r].pc = "done" /\ up[r].s3Data # NoObject

\* C15: two uploads of the same bytes that issued their PutObject wrote the
\* same key, whatever their file names, and the bucket holds at most one
\* object per contentHash.
C15_OneBlobPerContent ==
  /\ \A r, q \in UploadIds :
       (/\ UpStoredBlob(r) /\ UpStoredBlob(q)
        /\ up[r].event.fileData = up[q].event.fileData)
       => UpS3Key(r) = UpS3Key(q)
  /\ \A h \in Hashes : Cardinality({k \in StoredBlobs : k[1] = h}) <= 1

\* The attributes of an ImageRecord that are fixed at its creation.
CreationAttributes == {"s3ObjectUrl", "PHash", "originalFileName", "uploadDate"}

\* C17: a record that exists still exists after every step, with the same
\* blobUrl, perceptualHash, originalFileName and creation timestamp.
C17_CreationAttributesFixed ==
  [][\A h \in Hashes :
       imageTable[h] # NoItem
         => /\ imageTable'[h] # NoItem
            /\ \A a \in CreationAttributes :
                 Has(imageTable[h], a)
                   => /\ Has(imageTable'[h], a)
                      /\ imageTable'[h][a] = imageTable[h][a]]_vars

\* C16: every item of the image table has a blobUrl and a perceptualHash
\* (it was written by the new-upload branch of an ingestion); feedback for
\* an imageHash without record leaves that key without item.
C16_ItemsAreImageRecords ==
  \A h \in Hashes :
    imageTable[h] # NoItem
      => Has(imageTable[h], "s3ObjectUrl") /\ Has(imageTable[h], "PHash")

\* C18: an upload whose buffer cannot be decoded is answered 500 in the
\* step it arrives in, which leaves both tables and the bucket unchanged;
\* it never waits on a lookup or a write.
C18_DecodeFailureTouchesNothing ==
  [][\A r \in UploadIds :
       (up'[r].pc # "idle" /\ up'[r].event.fileData \in Undecodable)
         => /\ up'[r].pc = "done"
            /\ up'[r].response.statusCode = 500
            /\ up[r].pc = "idle" => UNCHANGED <<imageTable, commentTable, s3Bucket>>]_vars

\* An undecodable upload was refused next to an upload of A that was
\* stored: one record, one blob, both of A.
C18_Witness ==
  \E r, q \in UploadIds :
    /\ UpAnswered(r)
    /\ up[r].event.fileData \in Undecodable
    /\ up[r].response.statusCode = 500
    /\ UpSucceeded(q)
    /\ Records(imageTable) = {UpHash(q)}
    /\ StoredBlobs = {UpS3Key(q)}

\* Request r is a POST whose feedbackType is neither "up" nor "down".
FbInvalidType(r) ==
  /\ fb[r].pc # "idle"
  /\ fb[r].event.httpMethod = "POST"
  /\ fb[r].event.feedbackType \notin {"up", "down"}

\* C19: a POST whose feedbackType is neither "up" nor "down" is answered
\* 400 in the step it arrives in, which leaves both tables and the bucket
\* unchanged; it never waits on a storage call.
C19_InvalidTypeIs400 ==
  [][\A r \in FeedbackIds :
       FbInvalidType(r)'
         => /\ fb'[r].pc = "done"
            /\ fb'[r].response.statusCode = 400
            /\ fb[r].pc = "idle" => UNCHANGED <<imageTable, commentTable, s3Bucket>>]_vars

\* An identified user's POST for the stored image with feedbackType
\* "sideways" was refused and nothing was stored.
C19_Witness ==
  \E r \in FeedbackIds :
    /\ FbInvalidType(r)
    /\ fb[r].event.userId = "u1"
    /\ fb[r].event.imageHash = "hA"
    /\ fb[r].response = FbError(400, "Invalid feedbackType")
    /\ FbStarted = {r}
    /\ \A k \in DOMAIN commentTable : commentTable[k] = NoItem
    /\ Thumbs(imageTable, "hA", "ThumbsUp") = 0
    /\ Thumbs(imageTable, "hA", "ThumbsDown") = 0

\* C20: a POST whose imageHash or userId is empty or missing is answered
\* 400 in the step it arrives in: it never waits on a storage call.
C20_MissingFieldIs400 ==
  \A r \in FeedbackIds :
    (/\ fb[r].pc # "idle"
     /\ fb[r].event.httpMethod = "POST"
     /\ (fb[r].event.imageHash = "" \/ fb[r].event.userId = ""))
    => /\ fb[r].pc = "done"
       /\ fb[r].response.statusCode = 400

\* C21: no request ends by throwing out of its handler: every request that
\* has ended holds a response with an HTTP status.
C21_NoExceptionEscapes ==
  /\ \A r \in FeedbackIds :
       /\ fb[r].pc # "threw"
       /\ fb[r].pc = "done" => Has(fb[r].response, "statusCode")
  /\ \A r \in UploadIds :
       up[r].pc = "done" => Has(up[r].response, "statusCode")

\* C22: an OPTIONS request is answered with the 200 preflight response in
\* the step it arrives in, whatever its body and whoever sent it.
C22_PreflightAlways200 ==
  \A r \in FeedbackIds :
    (fb[r].pc # "idle" /\ fb[r].event.httpMethod = "OPTIONS")
      => /\ fb[r].pc = "done"
         /\ fb[r].response = FbPreflightResponse

\* Request r was answered as a first vote.
FbAnsweredFirstVote(r) ==
  /\ FbAnswered(r)
  /\ fb[r].response.statusCode = 200
  /\ fb[r].response.message = "Feedback submitted successfully"

\* C23: of two submissions for one (imageHash, userId), at most one is
\* answered as a first vote (the other one is refused with 409), and
\* when they are the only requests the user is counted once.
C23_RacingFirstVotes ==
  \A r, q \in FeedbackIds :
    (r # q /\ FbAnswered(r) /\ FbAnswered(q) /\ FbKey(r) = FbKey(q))
      => /\ ~(FbAnsweredFirstVote(r) /\ FbAnsweredFirstVote(q))
         /\ FbStarted = {r, q}
              => Thumbs(imageTable, fb[r].event.imageHash, "ThumbsUp")
                   + Thumbs(imageTable, fb[r].event.imageHash, "ThumbsDown") <= 1

\* The user id request r must act for: the token's when the token yields
\* one, else the body's.
FbExpectedUser(r) ==
  IF fb[r].event.authorization = "Bearer username-u1" THEN "u1"
  ELSE IF fb[r].event.authorization = "Bearer sub-u2" THEN "u2"
  ELSE fb[r].event.bodyUserId

\* C24: a request acts for the token's user id when the token decodes to
\* one, whatever the body says, and for the body's userId otherwise: it
\* writes only that user's FeedbackRecord and answers with that user id;
\* with neither it is answered 400 in the step it arrives in and nothing is
\* stored.
C24_TokenTakesPrecedence ==
  [][\A r \in FeedbackIds :
       fb'[r].pc # "idle"
         => LET u == FbExpectedUser(r)' IN
            /\ fb'[r].event.userId = u
            /\ u = "" => /\ fb'[r].pc = "done"
                         /\ fb'[r].response.statusCode = 400
            /\ fb[r].pc = "idle" => UNCHANGED <<imageTable, commentTable, s3Bucket>>
            /\ (fb[r].pc \in {"putItem", "updateFeedback"} /\ fb'[r] # fb[r])
                 => /\ \A k \in DOMAIN commentTable :
                         k # <<"hA", u>> => commentTable'[k] = commentTable[k]
                    /\ commentTable' # commentTable
                         => commentTable'[<<"hA", u>>].UserId = u
            /\ (fb'[r].pc = "done" /\ fb'[r].response.statusCode = 200)
                 => fb'[r].response.userId = u]_vars

\* A request with u1's token and userId u2 in its body was stored for u1.
C24_Witness ==
  \E r \in FeedbackIds :
    /\ FbStarted = {r}
    /\ fb[r].event.authorization = "Bearer username-u1"
    /\ fb[r].event.bodyUserId = "u2"
    /\ FbAnsweredFirstVote(r)
    /\ fb[r].response.userId = "u1"
    /\ commentTable[<<"hA", "u1">>] # NoItem
    /\ commentTable[<<"hA", "u2">>] = NoItem

\* Request r succeeded after every earlier request had failed, and no
\* request came after it.
UpRetrySucceeded(r) ==
  /\ UpSucceeded(r)
  /\ UpStarted = 1..r
  /\ \A q \in 1..(r - 1) : UpAnswered(q) /\ up[q].response.statusCode = 500

\* C25: when an upload succeeds after earlier uploads of the same request
\* failed on a storage call, the stores are as after one successful
\* ingestion: one record, with requestCount 1 and the request's origin,
\* and one blob, holding the uploaded bytes under the record's key.
C25_RetryAfterFailure ==
  \A r \in UploadIds :
    UpRetrySucceeded(r)
      => /\ up[r].response.message = "Image uploaded successfully"
         /\ Records(imageTable) = {UpHash(r)}
         /\ imageTable[UpHash(r)].requestCount = 1
         /\ imageTable[UpHash(r)].originWebsites = {up[r].event.origin}
         /\ imageTable[UpHash(r)].s3ObjectUrl = UpS3Key(r)
         /\ StoredBlobs = {UpS3Key(r)}
         /\ s3Bucket[UpS3Key(r)] = up[r].event.fileData

\* The first attempt failed on its record write, after the blob was
\* written and read back; the retry succeeded.
C25_Witness ==
  /\ UpRetrySucceeded(2)
  /\ up[1].s3Data # NoObject
  /\ up[1].event.origin = up[2].event.origin
  /\ Cardinality(StoredBlobs) = 1
  /\ imageTable["hA"].requestCount = 1

\* C26: a first vote whose record write succeeded and whose aggregate
\* update failed (500) is sent again and answered 200: the counters then
\* agree with the FeedbackRecords, the vote is counted once.
C26_RetryCountsVote ==
  (/\ FbStarted = {1, 2}
   /\ fb[1].event = fb[2].event
   /\ FbAnswered(1) /\ fb[1].response = FbError(500, "Failed to submit feedback")
   /\ commentTable[FbKey(1)] # NoItem
   /\ FbAnswered(2) /\ fb[2].response.statusCode = 200)
  => /\ Thumbs(imageTable, fb[1].event.imageHash,
               CounterName(fb[1].event.feedbackType)) = 1
     /\ C4_SumEqualsVoters

\* The formats the service accepts, by extension (JPEG, PNG, GIF, WebP).
AllowedExtensions == {".jpg", ".png", ".gif", ".webp"}

\* Request r carries a file whose type is none of the accepted ones: neither
\* its bytes nor its declared type nor its name says so.
UpUnsupportedType(r) ==
  /\ up[r].pc # "idle"
  /\ headerExt(up[r].event.fileData) \notin AllowedExtensions
  /\ mimeToExt(up[r].event.mimeType) \notin AllowedExtensions
  /\ extname(up[r].event.fileName) \notin AllowedExtensions

C28_StoredOriginsAllowed ==
  \A h \in Hashes :
    (imageTable[h] # NoItem /\ Has(imageTable[h], "originWebsites"))
      => imageTable[h].originWebsites \subseteq allowedOrigins

\* The extension the stated order of detection gives: the magic number of
\* the bytes where it identifies a format, else the declared MIME type,
\* else the extension of the file name.
HeaderFirstExt(fileName, mimeType, fileData) ==
  IF headerExt(fileData) # "" THEN headerExt(fileData)
  ELSE IF mimeToExt(mimeType) # "" THEN mimeToExt(mimeType)
  ELSE extname(fileName)

\* C29: the extension of a newly stored upload is the one of the magic
\* number of its bytes where that identifies a format, else the one of the
\* declared MIME type, else the one of the file name; the file name never
\* overrides a recognised header.
C29_HeaderBeforeFileName ==
  \A r \in UploadIds :
    (UpSucceeded(r) /\ Has(up[r].response, "fileExtension"))
      => /\ up[r].response.fileExtension =
              HeaderFirstExt(up[r].event.fileName, up[r].event.mimeType,
                             up[r].event.fileData)
         /\ headerExt(up[r].event.fileData) # ""
              => up[r].response.s3ObjectUrl =
                   s3KeyOf(UpHash(r), headerExt(up[r].event.fileData))

\* The response carries a message or an error, and the given image hash.
CarriesHash(response, imageHash) ==
  /\ Has(response, "message") \/ Has(response, "error")
  /\ Has(response, "imageHash")
  /\ response.imageHash = imageHash

\* C30: every response of the ingestion and of the feedback handler, success
\* or error, carries a message or error field and the imageHash of the
\* request, whenever the hash had been computed (ingestion) or was supplied
\* (feedback) when the response was produced.
C30_ResponsesCarryHash ==
  /\ \A r \in UploadIds : UpAnswered(r) => CarriesHash(up[r].response, UpHash(r))
  /\ \A r \in FeedbackIds :
       (FbAnswered(r) /\ fb[r].event.httpMethod = "POST" /\ fb[r].event.imageHash # "")
         => CarriesHash(fb[r].response, fb[r].event.imageHash)

\* The positions of a feedback request before its record write and before
\* its aggregate update.
FbRecordWrites == {"putItem", "updateFeedback"}
FbAggregateUpdates == {"updateCount", "updateCountChanged"}

\* C31: a feedback request writes its FeedbackRecord before it updates the
\* aggregate.  A failed record write leaves both tables unchanged and is
\* answered 500; a failed aggregate update leaves the record as written and
\* is answered 500; a request changes the aggregate only from the position
\* it reached by writing its record.
C31_RecordBeforeAggregate ==
  [][\A r \in FeedbackIds :
       /\ (fb[r].pc \in FbRecordWrites /\ fb'[r].pc = "done")
            => /\ fb'[r].response.statusCode = 500
               /\ UNCHANGED <<imageTable, commentTable>>
       /\ (fb[r].pc \in FbRecordWrites /\ fb'[r].pc \notin FbRecordWrites \cup {"done"})
            => /\ fb'[r].pc \in FbAggregateUpdates
               /\ commentTable'[FbKey(r)] # NoItem
               /\ commentTable'[FbKey(r)].Type = fb[r].event.feedbackType
               /\ commentTable'[FbKey(r)].Timestamp = Now(r)
               /\ UNCHANGED imageTable
       /\ (fb[r].pc \notin FbRecordWrites /\ fb'[r].pc \in FbAggregateUpdates)
            => fb'[r] = fb[r]
       /\ (fb[r].pc \in FbAggregateUpdates /\ fb'[r] # fb[r])
            => /\ fb'[r].pc = "done"
               /\ UNCHANGED commentTable
               /\ fb'[r].response.statusCode = 500 => UNCHANGED imageTable
               /\ fb'[r].response.statusCode # 500 => imageTable' # imageTable
       /\ (fb'[r] # fb[r] /\ imageTable' # imageTable)
            => fb[r].pc \in FbAggregateUpdates]_vars

\* The only request so far wrote its record, its aggregate update was
\* rejected and it was answered 500: the record is there, the counter is not.
C31_Witness ==
  /\ FbStarted = {1}
  /\ FbAnswered(1) /\ fb[1].response.statusCode = 500
  /\ commentTable[FbKey(1)] # NoItem
  /\ commentTable[FbKey(1)].Type = fb[1].event.feedbackType
  /\ Thumbs(imageTable, fb[1].event.imageHash, CounterName(fb[1].event.feedbackType)) = 0

\* The uploads answered 200 as duplicate or similar of the record of A.
UpCounted == {r \in UploadIds : UpSucceeded(r)}

\* C32: with the record of A stored, the duplicate and similar uploads that
\* resolve to it and succeed raise its requestCount by exactly their
\* number, whatever the interleaving, and their responses report pairwise
\* distinct counts, each the count after some update.
C32_CountsEveryUpload ==
  /\ imageTable["hA"].requestCount = 1 + Cardinality(UpCounted)
  /\ \A r \in UpCounted :
       /\ up[r].response.message \in {"File already exists", "Similar file exists"}
       /\ up[r].response.requestCount \in 2..(1 + Cardinality(UpCounted))
  /\ \A r, q \in UpCounted :
       r # q => up[r].response.requestCount # up[q].response.requestCount

\* A duplicate and a similar upload both read the record at count 1 before
\* either updated it, and both succeeded: the count is 3.
C32_Witness ==
  /\ UpCounted = {1, 2}
  /\ up[1].response.message # up[2].response.message
  /\ \A r \in {1, 2} :
       (IF up[r].exactDuplicate # NoItem
          THEN up[r].exactDuplicate ELSE up[r].similarImage).requestCount = 1
  /\ imageTable["hA"].requestCount = 3

\* The started feedback requests that vote t on image h.
FbVotes(h, t) ==
  {r \in FbStarted : fb[r].event.imageHash = h /\ fb[r].event.feedbackType = t}

\* Every started request is the first vote of a user of its own and was
\* answered 200.
FbDistinctFirstVotes ==
  /\ \A r, q \in FbStarted : r # q => fb[r].event.userId # fb[q].event.userId
  /\ \A r \in FbStarted : FbAnsweredFirstVote(r)

\* C33: when distinct users cast their first votes on one image at the same
\* time and every request succeeds, thumbsUp is the number of up votes and
\* thumbsDown the number of down votes, in every interleaving.
C33_ConcurrentFirstVotes ==
  FbDistinctFirstVotes
    => \A h \in FeedbackImageHashes :
         /\ Thumbs(imageTable, h, "ThumbsUp") = Cardinality(FbVotes(h, "up"))
         /\ Thumbs(imageTable, h, "ThumbsDown") = Cardinality(FbVotes(h, "down"))

\* Three users voted on image A, two of them up, and all were answered
\* 200: thumbsUp is 2 and thumbsDown is 1.
C33_Witness ==
  /\ Cardinality(FbStarted) = 3
  /\ FbDistinctFirstVotes
  /\ Cardinality(FbVotes("hA", "up")) = 2
  /\ Thumbs(imageTable, "hA", "ThumbsUp") = 2
  /\ Thumbs(imageTable, "hA", "ThumbsDown") = 1
  /\ Cardinality(Voters("hA")) = 3

\* C34: thumbsUp >= 0 and thumbsDown >= 0 for every image, also when one
\* user submits two vote changes at the same time that both read the same
\* stored vote before either writes.  Stated of the states in which every
\* started request has been answered 200, where no update is pending.
C34_CountersNonNegative ==
  (\A r \in FbStarted : FbAnswered(r) /\ fb[r].response.statusCode = 200)
    => \A h \in Hashes :
         /\ Thumbs(imageTable, h, "ThumbsUp") >= 0
         /\ Thumbs(imageTable, h, "ThumbsDown") >= 0

\* The users whose FeedbackRecord for image h holds vote t.
VotersOf(h, t) ==
  {u \in AllUsers : commentTable[<<h, u>>] # NoItem /\ commentTable[<<h, u>>].Type = t}

\* C35: when feedback requests run one at a time and all succeed, after
\* every completed request thumbsUp of an image is the number of its
\* FeedbackRecords with vote up and thumbsDown the number with vote down.
C35_SequentialCountsMatch ==
  (\A r \in FbStarted : FbAnswered(r) /\ fb[r].response.statusCode = 200)
    => \A h \in Hashes :
         /\ Thumbs(imageTable, h, "ThumbsUp") = Cardinality(VotersOf(h, "up"))
         /\ Thumbs(imageTable, h, "ThumbsDown") = Cardinality(VotersOf(h, "down"))

\* u1 voted up, u2 voted down, then u1 changed to down: no up vote and two
\* down votes are stored and counted.
C35_Witness ==
  /\ FbStarted = {1, 2, 3}
  /\ \A r \in FbStarted : FbAnswered(r) /\ fb[r].response.statusCode = 200
  /\ fb[1].event.userId = "u1" /\ fb[1].event.feedbackType = "up"
  /\ fb[2].event.userId = "u2" /\ fb[2].event.feedbackType = "down"
  /\ fb[3].event.userId = "u1" /\ fb[3].event.feedbackType = "down"
  /\ VotersOf("hA", "down") = {"u1", "u2"}
  /\ Thumbs(imageTable, "hA", "ThumbsUp") = 0
  /\ Thumbs(imageTable, "hA", "ThumbsDown") = 2

\* Every ImageRecord that carries a blob key has its blob in the bucket,
\* and the blob holds bytes of the record's contentHash.
C36_BlobOfRecordStored ==
  \A h \in Hashes :
    (imageTable[h] # NoItem /\ Has(imageTable[h], "s3ObjectUrl"))
      => /\ s3Bucket[imageTable[h].s3ObjectUrl] # NoObject
         /\ sha256Hash(s3Bucket[imageTable[h].s3ObjectUrl]) = h

\* The steps of request r on the new-upload path.
C36_Step(r) ==
  /\ (up[r].pc # "getObject" /\ up'[r].pc = "getObject")
       => /\ up[r].pc = "putObject"
          /\ s3Bucket'[UpS3Key(r)] = up[r].event.fileData
          /\ UNCHANGED imageTable
  /\ (up[r].pc # "putItem" /\ up'[r].pc = "putItem")
       => /\ up[r].pc = "getObject"
          /\ up'[r].s3Data # NoObject
          /\ UNCHANGED <<imageTable, s3Bucket>>
  /\ (up[r].pc \in {"putObject", "getObject"} /\ up'[r].pc \notin {"getObject", "putItem"}
        /\ up'[r] # up[r])
       => /\ up'[r].pc = "done"
          /\ up'[r].response.statusCode = 500
          /\ UNCHANGED imageTable
  /\ (up'[r] # up[r] /\ Records(imageTable') # Records(imageTable))
       => /\ up[r].pc = "putItem"
          /\ up[r].s3Data # NoObject
          /\ s3Bucket[UpS3Key(r)] # NoObject
          /\ imageTable'[UpHash(r)].s3ObjectUrl = UpS3Key(r)

\* C36: on the new-upload path the blob is put, then read back, then the
\* record is written: an ImageRecord written by ingestion has its blob in
\* the bucket, put by a call that succeeded before the record write; a
\* request whose blob put or read-back is rejected writes no record.
C36_BlobBeforeRecord ==
  [][C36_BlobOfRecordStored' /\ \A r \in UploadIds : C36_Step(r)]_vars

\* One upload stored blob and record; another one put its blob, was
\* answered 500 and left no record.
C36_Witness ==
  \E r, q \in UploadIds :
    /\ UpSucceeded(r)
    /\ up[r].response.message = "Image uploaded successfully"
    /\ imageTable[UpHash(r)].s3ObjectUrl = UpS3Key(r)
    /\ s3Bucket[UpS3Key(r)] = up[r].event.fileData
    /\ UpAnswered(q) /\ up[q].response.statusCode = 500
    /\ sharpDecodes(up[q].event.fileData)
    /\ s3Bucket[UpS3Key(q)] = up[q].event.fileData
    /\ imageTable[UpHash(q)] = NoItem

\* The stored ImageRecords whose perceptualHash is pHash.
RecordsOfPHash(table, pHash) ==
  {h \in Records(table) : Has(table[h], "PHash") /\ table[h].PHash = pHash}

\* C37: with uploads one at a time, no two ImageRecords share a
\* perceptualHash, and an upload whose perceptualHash is that of a stored
\* record creates no record.
C37_OneRecordPerPHash ==
  [][/\ \A h, g \in Records(imageTable') :
          h # g => imageTable'[h].PHash # imageTable'[g].PHash
     /\ \A r \in UploadIds :
          (up'[r] # up[r]
             /\ RecordsOfPHash(imageTable, calculatePHash(up'[r].event.fileData)) # {})
            => Records(imageTable') = Records(imageTable)]_vars

\* A was stored, its lookalike A2 was answered as similar and has no
\* record, and the third picture got a record of its own.
C37_Witness ==
  /\ UpStarted = {1, 2, 3}
  /\ \A r \in UpStarted : UpSucceeded(r)
  /\ up[1].event.fileData = "A"
  /\ up[2].event.fileData = "A2" /\ up[2].response.message = "Similar file exists"
  /\ up[3].event.fileData = "T"
  /\ Records(imageTable) = {"hA", "hT"}
  /\ imageTable["hA"].requestCount = 2

\* How far request r has come: the storage calls still ahead of it on any
\* path are those of the higher ranks.
UpRank(u) ==
  CASE u.pc = "idle" -> 0
    [] u.pc = "lookup" ->
         1 + (IF u.gotExact THEN 1 ELSE 0) + (IF u.gotSimilar THEN 1 ELSE 0)
    [] u.pc \in {"updateDuplicate", "updateSimilar", "putObject"} -> 3
    [] u.pc = "getObject" -> 4
    [] u.pc = "putItem" -> 5
    [] OTHER -> 6

\* The outcomes of an answered request.
UpOutcomes(u) ==
  {o \in {"new", "duplicate", "similar", "fail"} :
     \/ o = "fail" /\ u.response.statusCode = 500
     \/ /\ u.response.statusCode = 200
        /\ \/ o = "new" /\ u.response.message = "Image uploaded successfully"
           \/ o = "duplicate" /\ u.response.message = "File already exists"
           \/ o = "similar" /\ u.response.message = "Similar file exists"}

\* C38: every ingestion request, when each storage call returns or fails,
\* terminates in exactly one of DONE(new), DONE(duplicate), DONE(similar)
\* and FAIL, and issues each storage operation of its path at most once:
\* every step of a request takes it further, none takes it back.
C38_Terminates ==
  /\ [][\A r \in UploadIds :
          /\ up'[r] # up[r] => UpRank(up'[r]) > UpRank(up[r])
          /\ up'[r].pc = "done" => Cardinality(UpOutcomes(up'[r])) = 1]_vars
  /\ \A r \in 1..MaxLiveUploads : (up[r].pc # "idle") ~> (up[r].pc = "done")

\* Two uploads of lookalike pictures ended in two different ways: one was
\* stored as new, the other one counted as similar.
C38_Witness ==
  /\ UpStarted = {1, 2}
  /\ \A r \in UpStarted : UpAnswered(r)
  /\ UpOutcomes(up[1]) = {"new"}
  /\ UpOutcomes(up[2]) = {"similar"}
  /\ up[2].gotExact /\ up[2].gotSimilar

\* The origin the stated order of checks resolves: the x-origin header
\* when its origin is allowed, else the origin header when it is allowed,
\* else the allowed origin the referer starts with, else null.
C39_Resolved(headers) ==
  IF headers.xOrigin # "" /\ urlOrigin(headers.xOrigin) \in Range(feedbackAllowedOrigins)
    THEN urlOrigin(headers.xOrigin)
  ELSE IF headers.origin \in Range(feedbackAllowedOrigins) THEN headers.origin
  ELSE refererOrigin(headers.referer)

\* C39: for the headers of every request, getValidOrigin returns null or a
\* member of the allow-list, the one the order x-origin, origin, referer
\* gives; the Access-Control-Allow-Origin header of every feedback response
\* is a member of the allow-list, the resolved origin or else the first
\* entry.
C39_ValidOriginOrNull ==
  \A r \in FbStarted :
    LET headers == fb[r].event.headers
        origin == getValidOrigin(headers)
    IN /\ origin \in Range(feedbackAllowedOrigins) \cup {null}
       /\ origin = C39_Resolved(headers)
       /\ FbAnswered(r)
            => /\ allowOrigin(origin) \in Range(feedbackAllowedOrigins)
               /\ allowOrigin(origin) =
                    (IF origin = null THEN feedbackAllowedOrigins[1] ELSE origin)

====
